---- MODULE Spec2Model ----
(***************************************************************************)
(* github3.pulls: PullRequest, PullFile and ReviewComment as objects whose *)
(* methods build a URL, talk to the injected HTTP client and decode the    *)
(* answer.  One action per public method; the server's answer is an input  *)
(* of the action.  Python values that may be None are carried as           *)
(* sequences: None is <<>> and a value v is <<v>>.  A dict is a function   *)
(* whose DOMAIN is its key set; a URL is the sequence of its path          *)
(* segments.                                                               *)
(***************************************************************************)
EXTENDS Integers, Sequences, FiniteSets, TLC

VARIABLES
    pr,         \* the PullRequest object's attributes
    call,       \* the method call just made: [method, args]
    requests,   \* the HTTP requests the client was handed during that call
    response,   \* the server's answer to that call's request (None if none)
    result,     \* what the call returned
    outcome,    \* "returned" or the exception the call raised
    iter,       \* the lazy sequence a list method returned
    yielded,    \* the items the consumer has received from iter
    available   \* how many items the server holds for the listed collection

vars == <<pr, call, requests, response, result, outcome, iter, yielded, available>>

None == <<>>
Some(v) == <<v>>
EmptyDict == [k \in {} |-> None]

\* Python truthiness of an optional str / an optional bool.
TruthyStr(o) == o # None /\ o[1] # ""
TruthyBool(o) == o # None /\ o[1]

---------------------------------------------------------------------------
\* Input domains.

NTitles == 2

TitleOf(i) == CASE i = 1 -> "x" [] i = 2 -> "y" [] OTHER -> "z"
DocTitles == {TitleOf(i) : i \in 1..NTitles}

ApiUrl == <<"repos", "o", "r", "pulls", "1">>
CommentsUrl == <<"repos", "o", "r", "issues", "1", "comments">>
IssueUrl == <<"repos", "o", "r", "issues", "1">>
LinksHref == <<"links", "issues", "1", "comments">>
ContentsUrl == <<"repos", "o", "r", "contents", "f">>
ReviewCommentApi == <<"repos", "o", "r", "pulls", "comments", "7">>

Opt(S) == {None} \cup {Some(v) : v \in S}

\* A pull request as the server sends it.  url, comments_url and issue_url
\* are always there; the other keys may be missing.
MakePull(title, body, state, merged, links) ==
    LET keys == {"url", "comments_url", "issue_url"}
                \cup (IF title # None THEN {"title"} ELSE {})
                \cup (IF body # None THEN {"body"} ELSE {})
                \cup (IF state # None THEN {"state"} ELSE {})
                \cup (IF merged # None THEN {"merged"} ELSE {})
                \cup (IF links # None THEN {"_links"} ELSE {})
    IN [k \in keys |->
          CASE k = "url" -> ApiUrl
            [] k = "comments_url" -> CommentsUrl
            [] k = "issue_url" -> IssueUrl
            [] k = "title" -> title[1]
            [] k = "body" -> body[1]
            [] k = "state" -> state[1]
            [] k = "merged" -> merged[1]
            [] k = "_links" -> links[1]]

LinksValues == {EmptyDict, [comments |-> [href |-> LinksHref]]}

PullDocs ==
    {MakePull(t, b, s, m, l) :
        t \in Opt(DocTitles), b \in Opt({"x"}), s \in {Some("open"), Some("closed")},
        m \in Opt(BOOLEAN), l \in Opt(LinksValues)}

ErrorDoc == [message |-> "Not Found"]

\* A response: a status code and a body; the body is empty (None) or JSON.
Response(status, content) == [status_code |-> status, content |-> content]

\* What the server may answer to a request that expects a pull request.
PullResponses ==
    {Response(200, c) : c \in {None, Some(EmptyDict)} \cup {Some(d) : d \in PullDocs}}
    \cup {Response(s, c) : s \in {201, 204, 404}, c \in {None, Some(ErrorDoc)}}

\* ... to PUT <pull>/merge.
MergeDocs ==
    {[merged |-> m, message |-> "msg"] : m \in BOOLEAN} \cup {[message |-> "msg"]}

MergeResponses ==
    {Response(200, c) : c \in {None, Some(EmptyDict)} \cup {Some(d) : d \in MergeDocs}}
    \cup {Response(s, c) : s \in {204, 404}, c \in {None, Some(ErrorDoc)}}

\* ... to GET <pull>/merge: a bare status.
StatusResponses == {Response(s, None) : s \in {200, 204, 404}}

\* ... to a request creating or fetching one other object (comment, issue,
\* file contents).
ObjectDocs == {[id |-> 1, body |-> "x"]}

ObjectResponses ==
    {Response(s, c) : s \in {200, 201, 404},
                      c \in {None, Some(EmptyDict)} \cup {Some(d) : d \in ObjectDocs}}

\* ... to a GET asking for the diff or the patch: raw bytes.
RawResponses == {Response(s, c) : s \in {200, 404}, c \in {None, Some("bytes")}}

---------------------------------------------------------------------------
\* Helpers inherited from models.GitHubCore.

_get_attribute(data, attribute, fallback) ==
    IF attribute \in DOMAIN data THEN Some(data[attribute]) ELSE fallback

_boolean(resp, true_code, false_code) == resp.status_code = true_code

_json(resp, status_code) ==
    IF _boolean(resp, status_code, 404) /\ resp.content # None
    THEN resp.content
    ELSE None

\* `if json:` on the value _json returned.
TruthyJson(json) == json # None /\ DOMAIN json[1] # {}

\* Drops the keys whose value is None; what is left holds plain values.
_remove_none(data) ==
    [k \in {x \in DOMAIN data : data[x] # None} |-> data[k][1]]

_build_url(segment, base_url) == Append(base_url[1], segment)

NullObject(cls) == <<"NullObject", cls>>

_instance_or_null(cls, json) ==
    IF json = None THEN NullObject(cls) ELSE <<cls, json[1]>>

\* json.dumps: the payload is carried as the dict it encodes.
dumps(data) == data

Request(verb, url, data) == [verb |-> verb, url |-> url, data |-> data]

---------------------------------------------------------------------------
\* PullRequest

_update_attributes(pull) ==
    [_api         |-> _get_attribute(pull, "url", None),
     body         |-> _get_attribute(pull, "body", None),
     comments_url |-> _get_attribute(pull, "comments_url", None),
     issue_url    |-> _get_attribute(pull, "issue_url", None),
     links        |-> _get_attribute(pull, "_links", Some(EmptyDict)),
     merged       |-> _get_attribute(pull, "merged", None),
     state        |-> _get_attribute(pull, "state", None),
     title        |-> _get_attribute(pull, "title", None)]

\* The other two objects with network methods; their attributes never change.
pullFile == [contents_url |-> Some(ContentsUrl)]

reviewComment == [_api |-> Some(ReviewCommentApi), pull_request_url |-> Some(ApiUrl)]

\* Every method leaves the lazy-sequence state alone.
NoIter == UNCHANGED <<iter, yielded, available>>

Returned(value) == result' = value /\ outcome' = "returned"

Raised(exc) == result' = None /\ outcome' = exc

\* update, were it to answer True without re-reading the attributes.
update_without_refresh(title, body, state, resp) ==
    LET data == _remove_none([title |-> title, body |-> body, state |-> state])
        sent == DOMAIN data # {}
        json == IF sent THEN _json(resp, 200) ELSE None
    IN /\ requests' = IF sent
                      THEN <<Request("PATCH", pr._api[1], Some(dumps(data)))>>
                      ELSE <<>>
       /\ response' = IF sent THEN Some(resp) ELSE None
       /\ Returned(Some(TruthyJson(json)))
       /\ UNCHANGED pr
       /\ NoIter

update(title, body, state, resp) ==
    LET data == _remove_none([title |-> title, body |-> body, state |-> state])
        sent == DOMAIN data # {}
        json == IF sent THEN _json(resp, 200) ELSE None
    IN /\ requests' = IF sent
                      THEN <<Request("PATCH", pr._api[1], Some(dumps(data)))>>
                      ELSE <<>>
       /\ response' = IF sent THEN Some(resp) ELSE None
       /\ IF TruthyJson(json)
          THEN pr' = _update_attributes(json[1]) /\ Returned(Some(TRUE))
          ELSE UNCHANGED pr /\ Returned(Some(FALSE))
       /\ NoIter

close(resp) == update(pr.title, pr.body, Some("closed"), resp)

reopen(resp) == update(pr.title, pr.body, Some("open"), resp)

\* is_merged, were it to ask the server every time.
is_merged_uncached(resp) ==
    /\ requests' = <<Request("GET", _build_url("merge", pr._api), None)>>
    /\ response' = Some(resp)
    /\ Returned(Some(_boolean(resp, 204, 404)))
    /\ UNCHANGED pr
    /\ NoIter

is_merged(resp) ==
    /\ IF TruthyBool(pr.merged)
       THEN /\ requests' = <<>>
            /\ response' = None
            /\ Returned(pr.merged)
       ELSE /\ requests' = <<Request("GET", _build_url("merge", pr._api), None)>>
            /\ response' = Some(resp)
            /\ Returned(Some(_boolean(resp, 204, 404)))
    /\ UNCHANGED pr
    /\ NoIter

\* merge, were it to test `if commit_message:`.
merge_truthy_message(commit_message, sha, squash, resp) ==
    LET keys == {"squash"}
                \cup (IF TruthyStr(sha) THEN {"sha"} ELSE {})
                \cup (IF TruthyStr(commit_message) THEN {"commit_message"} ELSE {})
        parameters == [k \in keys |->
                         CASE k = "squash" -> squash
                           [] k = "sha" -> sha[1]
                           [] k = "commit_message" -> commit_message[1]]
        url == _build_url("merge", pr._api)
        json == _json(resp, 200)
    IN /\ requests' = <<Request("PUT", url, Some(dumps(parameters)))>>
       /\ response' = Some(resp)
       /\ IF ~TruthyJson(json)
          THEN Returned(Some(FALSE))
          ELSE IF "merged" \in DOMAIN json[1]
               THEN Returned(Some(json[1]["merged"]))
               ELSE Raised("KeyError")
       /\ UNCHANGED pr
       /\ NoIter

merge(commit_message, sha, squash, resp) ==
    LET keys == {"squash"}
                \cup (IF TruthyStr(sha) THEN {"sha"} ELSE {})
                \cup (IF commit_message # None THEN {"commit_message"} ELSE {})
        parameters == [k \in keys |->
                         CASE k = "squash" -> squash
                           [] k = "sha" -> sha[1]
                           [] k = "commit_message" -> commit_message[1]]
        url == _build_url("merge", pr._api)
        json == _json(resp, 200)
    IN /\ requests' = <<Request("PUT", url, Some(dumps(parameters)))>>
       /\ response' = Some(resp)
       /\ IF ~TruthyJson(json)
          THEN Returned(Some(FALSE))
          ELSE IF "merged" \in DOMAIN json[1]
               THEN Returned(Some(json[1]["merged"]))
               ELSE Raised("KeyError")
       /\ UNCHANGED pr
       /\ NoIter

\* create_comment, were it to post whatever the body.
create_comment_always_posts(body, resp) ==
    LET url == pr.comments_url[1]
        json == _json(resp, 201)
    IN /\ requests' = <<Request("POST", url, Some([body |-> body]))>>
       /\ response' = Some(resp)
       /\ Returned(_instance_or_null("IssueComment", json))
       /\ UNCHANGED pr
       /\ NoIter

create_comment(body, resp) ==
    LET url == pr.comments_url[1]
        sent == TruthyStr(body)
        json == IF sent THEN _json(resp, 201) ELSE None
    IN /\ requests' = IF sent
                      THEN <<Request("POST", url, Some([body |-> body[1]]))>>
                      ELSE <<>>
       /\ response' = IF sent THEN Some(resp) ELSE None
       /\ Returned(_instance_or_null("IssueComment", json))
       /\ UNCHANGED pr
       /\ NoIter

create_review_comment(body, commit_id, path, position, resp) ==
    LET url == _build_url("comments", pr._api)
        data == [body |-> body, commit_id |-> commit_id, path |-> path,
                 position |-> position]
        json == _json(resp, 201)
    IN /\ requests' = <<Request("POST", url, Some(data))>>
       /\ response' = Some(resp)
       /\ Returned(_instance_or_null("ReviewComment", json))
       /\ UNCHANGED pr
       /\ NoIter

\* diff and patch differ in the Accept header only.
raw(accept, resp) ==
    /\ requests' = <<[verb |-> "GET", url |-> pr._api[1], data |-> None,
                      headers |-> [Accept |-> accept]]>>
    /\ response' = Some(resp)
    /\ Returned(IF _boolean(resp, 200, 404) THEN resp.content ELSE None)
    /\ UNCHANGED pr
    /\ NoIter

diff(resp) == raw("application/vnd.github.diff", resp)

patch(resp) == raw("application/vnd.github.patch", resp)

issue(resp) ==
    LET json == _json(resp, 200)
    IN /\ requests' = <<Request("GET", pr.issue_url[1], None)>>
       /\ response' = Some(resp)
       /\ Returned(_instance_or_null("Issue", json))
       /\ UNCHANGED pr
       /\ NoIter

\* PullFile
contents(resp) ==
    LET json == _json(resp, 200)
    IN /\ requests' = <<Request("GET", pullFile.contents_url[1], None)>>
       /\ response' = Some(resp)
       /\ Returned(_instance_or_null("Contents", json))
       /\ UNCHANGED pr
       /\ NoIter

\* ReviewComment
reply(body, resp) ==
    LET url == _build_url("comments", reviewComment.pull_request_url)
        api == reviewComment._api[1]
        in_reply_to == api[Len(api)]
        json == _json(resp, 201)
    IN /\ requests' = <<Request("POST", url,
                                Some([body |-> body, in_reply_to |-> in_reply_to]))>>
       /\ response' = Some(resp)
       /\ Returned(_instance_or_null("ReviewComment", json))
       /\ UNCHANGED pr
       /\ NoIter

---------------------------------------------------------------------------
\* The calls a client can make, with their arguments.

\* A call starts when the caller holds no unread result; `call` names it.
Idle == call.method = "init"

Called(method, args) == Idle /\ call' = [method |-> method, args |-> args]

NoArgs == EmptyDict

Update ==
    \E title \in Opt({"y"}), body \in Opt({"x"}), state \in Opt({"open", "closed"}),
       resp \in PullResponses :
        /\ Called("update", [title |-> title, body |-> body, state |-> state])
        /\ update(title, body, state, resp)

Close == \E resp \in PullResponses : Called("close", NoArgs) /\ close(resp)

Reopen == \E resp \in PullResponses : Called("reopen", NoArgs) /\ reopen(resp)

IsMerged == \E resp \in StatusResponses : Called("is_merged", NoArgs) /\ is_merged(resp)

Merge ==
    \E commit_message \in Opt({"", "m"}), sha \in Opt({"", "s"}), squash \in BOOLEAN,
       resp \in MergeResponses :
        /\ Called("merge", [commit_message |-> commit_message, sha |-> sha,
                            squash |-> squash])
        /\ merge(commit_message, sha, squash, resp)

CreateComment ==
    \E body \in Opt({"", "x"}), resp \in ObjectResponses :
        /\ Called("create_comment", [body |-> body])
        /\ create_comment(body, resp)

CreateReviewComment ==
    \E position \in {1, 2}, resp \in ObjectResponses :
        /\ Called("create_review_comment", [position |-> position])
        /\ create_review_comment("x", "c", "f", position, resp)

Diff == \E resp \in RawResponses : Called("diff", NoArgs) /\ diff(resp)

Patch == \E resp \in RawResponses : Called("patch", NoArgs) /\ patch(resp)

GetIssue == \E resp \in ObjectResponses : Called("issue", NoArgs) /\ issue(resp)

Contents == \E resp \in ObjectResponses : Called("contents", NoArgs) /\ contents(resp)

Reply ==
    \E body \in {"", "x"}, resp \in ObjectResponses :
        /\ Called("reply", [body |-> body])
        /\ reply(body, resp)

---------------------------------------------------------------------------
\* The list-returning methods and the lazy sequence they share.

MaxNumber == 3
MaxAvailable == 3
PageSize == 2

Min(a, b) == IF a < b THEN a ELSE b

NoIterator == [state |-> "none", count |-> 0, url |-> None, cls |-> "",
               headers |-> None, page |-> 0, buffer |-> <<>>, more |-> FALSE]

\* GitHubCore._iter: builds the GitHubIterator and sends nothing.
_iter(count, url, cls, headers) ==
    [state |-> "created", count |-> count, url |-> Some(url), cls |-> cls,
     headers |-> headers, page |-> 0, buffer |-> <<>>, more |-> FALSE]

\* commits, were it to drop the caller's number.
commits_unbounded(number) ==
    _iter(-1, _build_url("commits", pr._api), "RepoCommit", None)

commits(number) ==
    _iter(number, _build_url("commits", pr._api), "RepoCommit", None)

files(number) ==
    _iter(number, _build_url("files", pr._api), "PullFile", None)

\* dict.get(key, {}) on a dict of dicts.
DictGet(d, key) == IF key \in DOMAIN d THEN d[key] ELSE EmptyDict

\* str.replace('pulls', 'issues'), segment by segment.
ReplacePulls(url) == [i \in DOMAIN url |-> IF url[i] = "pulls" THEN "issues" ELSE url[i]]

issue_comments(number) ==
    LET comments == DictGet(pr.links[1], "comments")
        href == IF "href" \in DOMAIN comments THEN Some(comments["href"]) ELSE None
        url == IF href # None /\ href[1] # <<>>
               THEN href[1]
               ELSE _build_url("comments", Some(ReplacePulls(pr._api[1])))
    IN _iter(number, url, "IssueComment", None)

review_comments(number) ==
    _iter(number, _build_url("comments", pr._api), "ReviewComment", None)

reviews(number) ==
    _iter(number, _build_url("reviews", pr._api), "PullReview",
          Some([Accept |-> "application/vnd.github.black-cat-preview+json"]))

\* The server's page p of a collection of `available` items, PageSize a page.
PageItems(p) ==
    LET first == (p - 1) * PageSize + 1
        last == Min(p * PageSize, available)
    IN [i \in 1..(IF last >= first THEN last - first + 1 ELSE 0) |-> first + i - 1]

HasNext(p) == p * PageSize < available

\* One next() on the sequence: GitHubIterator.__iter__ runs from where it
\* stopped (the start, or just after its last yield) to its next yield or to
\* its end.
next_item ==
    LET resumed == iter.state = "running"
        \* after a yield: count -= 1 if count > 0 else 0; if count == 0: break
        count == IF resumed /\ iter.count > 0 THEN iter.count - 1 ELSE iter.count
        broke == resumed /\ count = 0
        inPage == resumed /\ ~broke /\ iter.buffer # <<>>
        \* the for loop is over: last_url is the page's rel=next link, if any
        nextPage == IF ~resumed THEN 1
                    ELSE IF iter.more THEN iter.page + 1 ELSE 0
        again == (count = -1 \/ count > 0) /\ nextPage # 0
        items == PageItems(nextPage)
    IN /\ iter.state \in {"created", "running"}
       /\ IF inPage
          THEN /\ yielded' = Append(yielded, Head(iter.buffer))
               /\ iter' = [iter EXCEPT !.count = count, !.buffer = Tail(iter.buffer)]
               /\ UNCHANGED requests
          ELSE IF again
          THEN /\ requests' = Append(requests,
                      [verb |-> "GET", url |-> iter.url[1], page |-> nextPage,
                       headers |-> iter.headers])
               /\ IF items # <<>>
                  THEN /\ yielded' = Append(yielded, Head(items))
                       /\ iter' = [iter EXCEPT !.state = "running", !.count = count,
                                               !.page = nextPage,
                                               !.buffer = Tail(items),
                                               !.more = HasNext(nextPage)]
                  ELSE /\ UNCHANGED yielded
                       /\ iter' = [iter EXCEPT !.state = "done", !.count = count,
                                               !.page = nextPage, !.buffer = <<>>,
                                               !.more = FALSE]
          ELSE /\ iter' = [iter EXCEPT !.state = "done", !.count = count]
               /\ UNCHANGED <<yielded, requests>>
       /\ UNCHANGED <<pr, call, response, result, outcome, available>>

\* A list method: it returns the sequence; the server's collection is what
\* it is at that moment.
ListCall(method, number, it) ==
    /\ Called(method, [number |-> number])
    /\ iter' = it
    /\ Returned(Some(it.cls))
    /\ requests' = <<>>
    /\ response' = None
    /\ yielded' = <<>>
    /\ available' \in 0..MaxAvailable
    /\ UNCHANGED pr

Numbers == -1..MaxNumber

Commits == \E number \in Numbers : ListCall("commits", number, commits(number))

Files == \E number \in Numbers : ListCall("files", number, files(number))

IssueComments ==
    \E number \in Numbers : ListCall("issue_comments", number, issue_comments(number))

ReviewComments ==
    \E number \in Numbers : ListCall("review_comments", number, review_comments(number))

Reviews == \E number \in Numbers : ListCall("reviews", number, reviews(number))

NextItem == next_item

\* The caller has read the result of its call (or dropped the sequence) and
\* the client's request log starts afresh for the next call.
Done ==
    /\ ~Idle
    /\ call' = [method |-> "init", args |-> NoArgs]
    /\ requests' = <<>>
    /\ response' = None
    /\ result' = None
    /\ outcome' = "returned"
    /\ iter' = NoIterator
    /\ yielded' = <<>>
    /\ available' = 0
    /\ UNCHANGED pr

\* A PullRequest is built from a pull request the server sent.
Init ==
    /\ pr \in {_update_attributes(d) : d \in PullDocs}
    /\ call = [method |-> "init", args |-> NoArgs]
    /\ requests = <<>>
    /\ response = None
    /\ result = None
    /\ outcome = "returned"
    /\ iter = NoIterator
    /\ yielded = <<>>
    /\ available = 0

Next ==
    \/ Update
    \/ Close
    \/ Reopen
    \/ IsMerged
    \/ Merge
    \/ CreateComment
    \/ CreateReviewComment
    \/ Diff
    \/ Patch
    \/ GetIssue
    \/ Contents
    \/ Reply
    \/ Commits
    \/ Files
    \/ IssueComments
    \/ ReviewComments
    \/ Reviews
    \/ NextItem
    \/ Done

Spec == Init /\ [][Next]_vars

---------------------------------------------------------------------------
\* Properties.

NetworkMethods ==
    {"contents", "close", "reopen", "update", "merge", "create_comment",
     "create_review_comment", "diff", "patch", "is_merged", "issue", "reply"}

ListMethods == {"commits", "files", "issue_comments", "review_comments", "reviews"}

\* The JSON object the answer to the last call carried, if any.
Answered200WithObject ==
    /\ response # None
    /\ response[1].status_code = 200
    /\ response[1].content # None
    /\ DOMAIN response[1].content[1] # {}

AnswerDoc == response[1].content[1]

\* C1, as stated: every call of a network method hands the client exactly one
\* request, whatever the arguments and the object's state.
C1_ExactlyOneRequest ==
    call.method \in NetworkMethods => Len(requests) = 1

\* The calls that return without a request.
SkipsRequest ==
    \/ call.method = "is_merged" /\ TruthyBool(pr.merged)
    \/ call.method = "update"
       /\ \A k \in {"title", "body", "state"} : call.args[k] = None
    \/ call.method = "create_comment" /\ ~TruthyStr(call.args.body)

\* C1, amended: a call of a network method that returns has sent at most one
\* request: none when is_merged finds merged truthy, when update is given
\* no title, body or state, or when create_comment is given a falsy body,
\* and exactly one in every other case.
C1_AtMostOneRequest ==
    (call.method \in NetworkMethods /\ outcome = "returned")
        => Len(requests) = (IF SkipsRequest THEN 0 ELSE 1)

C1_Witness ==
    /\ call.method = "create_comment"
    /\ call.args.body = Some("")
    /\ outcome = "returned"
    /\ requests = <<>>

\* C2: update returns True exactly when it sent a PATCH to the pull request's
\* API URL and was answered 200 with a non-empty JSON object; the object's
\* attributes then are the ones decoded from that answer, and the payload of
\* the PATCH holds exactly the arguments that are not None.
C2_Update ==
    call.method = "update" =>
        LET sent == requests # <<>>
            given == {k \in {"title", "body", "state"} : call.args[k] # None}
        IN /\ outcome = "returned"
           /\ Len(requests) <= 1
           /\ sent => /\ requests[1].verb = "PATCH"
                      /\ requests[1].url = ApiUrl
                      /\ DOMAIN requests[1].data[1] = given
                      /\ \A k \in given : requests[1].data[1][k] = call.args[k][1]
           /\ (result = Some(TRUE)) <=> (sent /\ Answered200WithObject)
           /\ result \in {Some(TRUE), Some(FALSE)}
           /\ result = Some(TRUE) =>
                /\ \A k \in {"title", "body", "state", "merged"} :
                      pr[k] = (IF k \in DOMAIN AnswerDoc
                               THEN Some(AnswerDoc[k]) ELSE None)
                /\ pr.links = (IF "_links" \in DOMAIN AnswerDoc
                               THEN Some(AnswerDoc["_links"]) ELSE Some(EmptyDict))
                /\ pr._api = Some(AnswerDoc["url"])

C2_Witness ==
    /\ call.method = "update"
    /\ result = Some(TRUE)
    /\ call.args.title = Some("y")
    /\ call.args.body = None
    /\ pr.title = Some("x")
    /\ DOMAIN requests[1].data[1] = {"title", "state"}

\* C3: is_merged returns True without a request when the cached merged is
\* truthy; otherwise it sends one GET to <api url>/merge and returns True on
\* 204 and False on 404; it never returns True on 404 with merged falsy.
C3_IsMerged ==
    call.method = "is_merged" =>
        /\ outcome = "returned"
        /\ IF TruthyBool(pr.merged)
           THEN requests = <<>> /\ result = Some(TRUE)
           ELSE /\ Len(requests) = 1
                /\ requests[1].verb = "GET"
                /\ requests[1].url = Append(ApiUrl, "merge")
                /\ response[1].status_code = 204 => result = Some(TRUE)
                /\ response[1].status_code = 404 => result = Some(FALSE)

C3_Witness ==
    /\ call.method = "is_merged"
    /\ pr.merged = Some(TRUE)
    /\ requests = <<>>
    /\ result = Some(TRUE)

C5_LazySequence ==
    call.method \in ListMethods =>
        LET number == call.args.number
            limit == IF number = -1 THEN available ELSE Min(number, available)
        IN /\ iter.state # "none"
           /\ iter.state = "created" => requests = <<>> /\ yielded = <<>>
           /\ requests # <<>> => iter.state \in {"running", "done"}
           /\ \A i \in DOMAIN requests : requests[i].verb = "GET"
           /\ yielded = [i \in 1..Len(yielded) |-> i]
           /\ Len(yielded) <= limit
           /\ iter.state = "done" => Len(yielded) = limit

C5_Witness ==
    /\ call.method = "commits"
    /\ call.args.number = 3
    /\ available = 3
    /\ iter.state = "done"
    /\ Len(yielded) = 3
    /\ Len(requests) = 2

====
